---- MODULE Spec2Model ----
(***************************************************************************)
(* Model of the Elasticsearch demonstration client in src/src/main.rs:     *)
(* the ElSearch wrapper (check_index_exists, create_index,                 *)
(* bulk_create_by_index, search), the fixed mapping and sample data, and   *)
(* main's provision-then-bulk-load flow, run against a search engine that  *)
(* is modelled by its REST behaviour.  Every .await of an HTTP exchange is *)
(* one atomic step at the engine.                                          *)
(***************************************************************************)
EXTENDS Integers, Sequences, FiniteSets, TLC

(* ------------------------------ bounds --------------------------------- *)
\* Runs of the program per operating-system process.
MaxRuns == 2
\* Environment faults (network, auth, availability, config) per behaviour.
MaxFaults == 2
\* Calls made by a direct user of the ElSearch methods.
MaxCalls == 2
\* Longest document sequence handed to bulk_create_by_index by that user.
MaxDocs == 2

(* --------------------------- JSON values -------------------------------- *)
\* A JSON scalar is its JSON type and its text.
Num(x) == <<"number", x>>
Str(x) == <<"string", x>>

Fields == {"name", "description", "category", "brand", "price", "rating"}

get_product_mapping ==
    [name        |-> "text",
     description |-> "text",
     category    |-> "keyword",
     brand       |-> "keyword",
     price       |-> "float",
     rating      |-> "float"]

generate_product_data ==
    << [name |-> Str("Smartphone"), description |-> Str("A smartphone with a high-resolution screen."),
        category |-> Str("Electronics"), brand |-> Str("TechBrand"),
        price |-> Num("699.99"), rating |-> Num("4.5")],
       [name |-> Str("Laptop"), description |-> Str("A powerful laptop for professionals."),
        category |-> Str("Computers"), brand |-> Str("CompTech"),
        price |-> Num("1299.99"), rating |-> Num("4.7")],
       [name |-> Str("Headphones"), description |-> Str("Noise-cancelling over-ear headphones."),
        category |-> Str("Audio"), brand |-> Str("SoundMax"),
        price |-> Num("199.99"), rating |-> Num("4.3")],
       [name |-> Str("Smartwatch"), description |-> Str("A stylish smartwatch with fitness tracking."),
        category |-> Str("Wearables"), brand |-> Str("WristTech"),
        price |-> Num("299.99"), rating |-> Num("4.2")],
       [name |-> Str("Tablet"), description |-> Str("A lightweight tablet with a 10-inch display."),
        category |-> Str("Tablets"), brand |-> Str("TabBrand"),
        price |-> Num("499.99"), rating |-> Num("4.4")],
       [name |-> Str("Gaming Console"), description |-> Str("A next-gen gaming console with 4K resolution."),
        category |-> Str("Gaming"), brand |-> Str("GameBox"),
        price |-> Num("499.99"), rating |-> Num("4.8")],
       [name |-> Str("Wireless Speaker"), description |-> Str("A portable wireless speaker with deep bass."),
        category |-> Str("Audio"), brand |-> Str("SoundWave"),
        price |-> Num("149.99"), rating |-> Num("4.6")] >>

product_index_name == "products"

(* ------------------------- HTTP responses ------------------------------- *)
\* Response: the status line, the error type of an error body, the items of
\* a bulk body, the hits of a search body, and whether the body can be read
\* to its end (text() / json() fail otherwise).
Response(status, error, items, hits) ==
    [status |-> status, error |-> error, items |-> items, hits |-> hits,
     bodyOk |-> TRUE]

ErrorResponse(status, error) == Response(status, error, <<>>, {})

\* StatusCode::is_success: 200 <= status <= 299.
is_success(status) == status >= 200 /\ status <= 299

\* Result<Response, Box<dyn Error>>
Ok(resp) == [tag |-> "Ok", resp |-> resp]
Err == [tag |-> "Err", resp |-> ErrorResponse(0, "transport")]

(* ------------------------------ engine ---------------------------------- *)
\* The engine's state: per index name whether it exists, its field mapping
\* and its stored documents; and the counter behind auto-generated ids.
IndexNames == {"products", "orders"}
ValidTypes == {"text", "keyword", "float"}
NoMapping == [f \in Fields |-> "unmapped"]
AbsentIndex == [exists |-> FALSE, mapping |-> NoMapping, docs |-> {}]
FreshEngine == [idx |-> [n \in IndexNames |-> AbsentIndex], nextId |-> 1]

\* HEAD /<index>
EngineExists(eng, name) ==
    [resp |-> IF eng.idx[name].exists
              THEN Response(200, "", <<>>, {})
              ELSE ErrorResponse(404, ""),
     eng  |-> eng]

\* PUT /<index> with a mappings body
EngineCreate(eng, name, schema) ==
    IF eng.idx[name].exists
    THEN [resp |-> ErrorResponse(400, "resource_already_exists_exception"), eng |-> eng]
    ELSE IF \E f \in Fields : schema[f] \notin ValidTypes
    THEN [resp |-> ErrorResponse(400, "mapper_parsing_exception"), eng |-> eng]
    ELSE [resp |-> Response(200, "", <<>>, {}),
          eng  |-> [eng EXCEPT !.idx[name] =
                       [exists |-> TRUE, mapping |-> schema, docs |-> {}]]]

\* A document is accepted when every float-mapped field holds a number; a
\* text or keyword field takes any scalar.
Accepts(mapping, doc) == \A f \in Fields : mapping[f] = "float" => doc[f][1] = "number"

\* Dynamic mapping: an unmapped field takes its type from the first value.
Extend(mapping, doc) ==
    [f \in Fields |-> IF mapping[f] = "unmapped"
                      THEN (IF doc[f][1] = "number" THEN "float" ELSE "text")
                      ELSE mapping[f]]

IsAction(v) == "create" \in DOMAIN v

\* One create action of a bulk request, applied to acc = [ix, nextId, items].
BulkItem(acc, action, doc) ==
    LET auto == "_id" \notin DOMAIN action.create
        id   == IF auto THEN <<"auto", acc.nextId>> ELSE action.create._id
        next == IF auto THEN acc.nextId + 1 ELSE acc.nextId
    IN  IF \E d \in acc.ix.docs : d.id = id
        THEN [acc EXCEPT !.nextId = next,
                         !.items = Append(@, [status |-> 409, id |-> id,
                                              error |-> "version_conflict_engine_exception"])]
        ELSE IF ~Accepts(acc.ix.mapping, doc)
        THEN [acc EXCEPT !.nextId = next,
                         !.items = Append(@, [status |-> 400, id |-> id,
                                              error |-> "mapper_parsing_exception"])]
        ELSE [ix     |-> [exists  |-> TRUE,
                          mapping |-> Extend(acc.ix.mapping, doc),
                          docs    |-> acc.ix.docs \cup {[id |-> id, source |-> doc]}],
              nextId |-> next,
              items  |-> Append(acc.items, [status |-> 201, id |-> id, error |-> ""])]

RECURSIVE BulkFold(_, _, _)
BulkFold(acc, lines, k) ==
    IF k > Len(lines) \div 2 THEN acc
    ELSE BulkFold(BulkItem(acc, lines[2 * k - 1].json, lines[2 * k].json), lines, k + 1)

\* POST /<index>/_bulk: the body is parsed as action/source line pairs before
\* anything runs; the actions then run in order, each on its own.  A missing
\* index is created on the first accepted document (auto-create).
EngineBulk(eng, name, lines) ==
    IF Len(lines) = 0
    THEN [resp |-> ErrorResponse(400, "parse_exception"), eng |-> eng]
    ELSE IF \/ Len(lines) % 2 # 0
            \/ \E k \in 1..(Len(lines) \div 2) :
                  \/ ~IsAction(lines[2 * k - 1].json)
                  \/ IsAction(lines[2 * k].json)
    THEN [resp |-> ErrorResponse(400, "illegal_argument_exception"), eng |-> eng]
    ELSE LET acc == BulkFold([ix |-> eng.idx[name], nextId |-> eng.nextId, items |-> <<>>],
                             lines, 1)
         IN  [resp |-> Response(200, "", acc.items, {}),
              eng  |-> [idx |-> [eng.idx EXCEPT ![name] = acc.ix], nextId |-> acc.nextId]]

\* POST /<index>/_search: the query is a term matched against the name field.
EngineSearch(eng, name, body) ==
    [resp |-> IF eng.idx[name].exists
              THEN Response(200, "", <<>>,
                            {d \in eng.idx[name].docs : d.source.name = Str(body.query)})
              ELSE ErrorResponse(404, "index_not_found_exception"),
     eng  |-> eng]

(* --------------------------- the exchange ------------------------------- *)
\* What one request/response exchange can meet:
\*   ok           the engine handles the request and the response arrives
\*   unreachable  send() fails before the request reaches the engine
\*   lost         the engine handles the request, send() fails on the way back
\*   auth         the engine answers 401 without handling the request
\*   unavailable  the engine answers 503 without handling the request
\*   badbody      the engine handles the request, the status arrives and the
\*                body cannot be read to its end
Exchanges == {"ok", "unreachable", "lost", "auth", "unavailable", "badbody"}

\* .send().await? : handled is what the engine does with the request.  ret
\* is what the caller gets, eng the engine afterwards, served the response
\* the engine produced (status 0: the request never reached it).
Send(eng, x, handled) ==
    CASE x = "unreachable" -> [ret |-> Err, eng |-> eng, served |-> ErrorResponse(0, "")]
      [] x = "lost"        -> [ret |-> Err, eng |-> handled.eng, served |-> handled.resp]
      [] x = "auth"        -> [ret |-> Ok(ErrorResponse(401, "security_exception")),
                               eng |-> eng,
                               served |-> ErrorResponse(401, "security_exception")]
      [] x = "unavailable" -> [ret |-> Ok(ErrorResponse(503, "unavailable")),
                               eng |-> eng,
                               served |-> ErrorResponse(503, "unavailable")]
      [] x = "badbody"     -> [ret |-> Ok([handled.resp EXCEPT !.bodyOk = FALSE]),
                               eng |-> handled.eng, served |-> handled.resp]
      [] OTHER             -> [ret |-> Ok(handled.resp), eng |-> handled.eng,
                               served |-> handled.resp]

(* -------------------------- ElSearch methods ---------------------------- *)
search(eng, index_name, body, x) == Send(eng, x, EngineSearch(eng, index_name, body))

check_index_exists(eng, index_name, x) == Send(eng, x, EngineExists(eng, index_name))

\* Variant: the create request names another index than the one asked for.
create_index_other_index(eng, index_name, body, x) ==
    Send(eng, x, EngineCreate(eng, "orders", body))

create_index(eng, index_name, body, x) == Send(eng, x, EngineCreate(eng, index_name, body))

\* JsonBody::new(v): one line of a newline-delimited body carrying v.
JsonBody(v) == [json |-> v]

\* json!({"create": {}})
create_instruction == [create |-> <<>>]

\* Variant: the operation's line is pushed before its create instruction.
RECURSIVE bulk_body_source_first(_)
bulk_body_source_first(operations) ==
    IF operations = <<>> THEN <<>>
    ELSE <<JsonBody(Head(operations)), JsonBody(create_instruction)>>
            \o bulk_body_source_first(Tail(operations))

\* Variant: every create instruction carries an id derived from the document.
RECURSIVE bulk_body_with_ids(_)
bulk_body_with_ids(operations) ==
    IF operations = <<>> THEN <<>>
    ELSE <<JsonBody([create |-> [_id |-> <<"doc", Head(operations).name[2]>>]]),
           JsonBody(Head(operations))>>
            \o bulk_body_with_ids(Tail(operations))

\* The loop of bulk_create_by_index: for each operation, the create
\* instruction line and then the operation's line.
RECURSIVE bulk_body(_)
bulk_body(operations) ==
    IF operations = <<>> THEN <<>>
    ELSE <<JsonBody(create_instruction), JsonBody(Head(operations))>>
            \o bulk_body(Tail(operations))

\* Variant: a response that reports a failed item is turned into an error.
bulk_create_by_index_strict(eng, index_name, operations, x) ==
    LET s == Send(eng, x, EngineBulk(eng, index_name, bulk_body(operations)))
    IN  IF /\ s.ret.tag = "Ok"
           /\ \E i \in 1..Len(s.ret.resp.items) : s.ret.resp.items[i].status >= 400
        THEN [s EXCEPT !.ret = Err]
        ELSE s

bulk_create_by_index(eng, index_name, operations, x) ==
    Send(eng, x, EngineBulk(eng, index_name, bulk_body(operations)))

(* ------------------------------- main ----------------------------------- *)
\* Two operating-system processes may run the program against one engine.
Procs == {1, 2}

\* What one run of main has done so far: the probe's and the create's result,
\* whether main took the index to exist, the bulk call's result, the lines
\* printed and how the run ended.
NoCall == [tag |-> "None", resp |-> ErrorResponse(0, "")]
NewRun == [probe |-> NoCall, index_exists |-> FALSE, create |-> NoCall,
           bulk |-> NoCall, printed |-> <<>>, exit |-> "running"]

\* Variant: only "not found" counts as absent.
index_exists_unless_404(is_existing_resp) == is_existing_resp.status # 404

\* let index_exists = is_existing_resp.status_code().is_success();
index_exists(is_existing_resp) == is_success(is_existing_resp.status)

\* Variant: the create branch is taken whatever the probe said.
takes_create_branch_always(exists) == TRUE

\* if index_exists { ... } else { create }
takes_create_branch(exists) == ~exists

VARIABLES
    engine,     \* the engine's indices and id counter
    faults,     \* environment faults met so far
    pc,         \* per process: "idle", "check", "create" or "bulk"
    run,        \* per process: the record of its current or last run
    runs,       \* per process: how many runs it has finished
    provLog,    \* provisioning outcomes of all runs, in order of completion
    overlap,    \* some probe ran while another run was between probe and create
    received,   \* from main: create requests the engine received, bulk
                \* requests it answered with a success status
    calls,      \* calls made by a direct user of ElSearch
    last        \* that user's last call

vars == <<engine, faults, pc, run, runs, provLog, overlap, received, calls, last>>

apiVars == <<calls, last>>
mainVars == <<pc, run, runs, provLog, overlap, received>>

Cost(x) == IF x = "ok" THEN 0 ELSE 1

NoLast == [op |-> "none", index |-> "", docs |-> <<>>, x |-> "ok", ret |-> NoCall,
           lines |-> <<>>, before |-> AbsentIndex]

Init ==
    /\ engine = FreshEngine
    /\ faults = 0
    /\ pc = [p \in Procs |-> "idle"]
    /\ run = [p \in Procs |-> NewRun]
    /\ runs = [p \in Procs |-> 0]
    /\ provLog = <<>>
    /\ overlap = FALSE
    /\ received = [creates |-> 0, bulks |-> 0]
    /\ calls = 0
    /\ last = NoLast

\* The run of p ends: `?` returned the error, a panic unwound, or Ok(()).
Finish(p, r, how) ==
    /\ runs' = [runs EXCEPT ![p] = @ + 1]
    /\ run' = [run EXCEPT ![p] = [r EXCEPT !.exit = how]]
    /\ pc' = [pc EXCEPT ![p] = "idle"]

Continue(p, r, where) ==
    /\ run' = [run EXCEPT ![p] = r]
    /\ pc' = [pc EXCEPT ![p] = where]
    /\ runs' = runs

\* main up to the first request: the three environment variables are read
\* (a missing one returns Err) and the transport is built (a malformed cloud
\* id panics in unwrap).
StartRun(p) ==
    /\ pc[p] = "idle"
    /\ runs[p] < MaxRuns
    /\ \E config \in {"ok", "missing", "malformed"} :
          /\ faults + Cost(config) <= MaxFaults
          /\ faults' = faults + Cost(config)
          /\ CASE config = "missing"   -> Finish(p, NewRun, "Err")
               [] config = "malformed" -> Finish(p, NewRun, "Panic")
               [] OTHER                -> Continue(p, NewRun, "check")
    /\ UNCHANGED <<engine, provLog, overlap, received, apiVars>>

\* es.check_index_exists(...).await? and the branch on index_exists.
CheckIndexExists(p) ==
    /\ pc[p] = "check"
    /\ \E x \in Exchanges \ {"badbody"} :
          /\ faults + Cost(x) <= MaxFaults
          /\ faults' = faults + Cost(x)
          /\ LET s == check_index_exists(engine, product_index_name, x)
                 r == [run[p] EXCEPT !.probe = s.ret]
             IN  /\ engine' = s.eng
                 /\ IF s.ret.tag = "Err"
                    THEN /\ Finish(p, r, "Err")
                         /\ provLog' = Append(provLog, "Error")
                    ELSE IF takes_create_branch(index_exists(s.ret.resp))
                    THEN /\ Continue(p, [r EXCEPT !.index_exists = index_exists(s.ret.resp),
                                                  !.printed = Append(@, "does not exists")],
                                     "create")
                         /\ provLog' = provLog
                    ELSE /\ Continue(p, [r EXCEPT !.index_exists = index_exists(s.ret.resp),
                                                  !.printed = Append(@, "exists")],
                                     "bulk")
                         /\ provLog' = Append(provLog,
                                IF index_exists(s.ret.resp) THEN "AlreadyExists" ELSE "Skipped")
    /\ overlap' = (overlap \/ \E q \in Procs \ {p} : pc[q] = "create")
    /\ UNCHANGED <<received, apiVars>>

\* es.create_index(...).await? and the report of its status; the failure
\* report reads the response body (text().await?).
CreateIndex(p) ==
    /\ pc[p] = "create"
    /\ \E x \in Exchanges :
          /\ faults + Cost(x) <= MaxFaults
          /\ faults' = faults + Cost(x)
          /\ LET s == create_index(engine, product_index_name, get_product_mapping, x)
                 r == [run[p] EXCEPT !.create = s.ret]
             IN  /\ engine' = s.eng
                 /\ received' = [received EXCEPT !.creates =
                                    IF s.served.status = 0 THEN @ ELSE @ + 1]
                 /\ IF s.ret.tag = "Err"
                    THEN /\ Finish(p, r, "Err")
                         /\ provLog' = Append(provLog, "Error")
                    ELSE IF is_success(s.ret.resp.status)
                    THEN /\ Continue(p, [r EXCEPT !.printed = Append(@, "created")], "bulk")
                         /\ provLog' = Append(provLog, "Created")
                    ELSE IF ~s.ret.resp.bodyOk
                    THEN /\ Finish(p, r, "Err")
                         /\ provLog' = Append(provLog, "Error")
                    ELSE /\ Continue(p, [r EXCEPT !.printed = Append(@, "failed to create")],
                                     "bulk")
                         /\ provLog' = Append(provLog, "Failed")
    /\ UNCHANGED <<overlap, apiVars>>

\* generate_product_data, es.bulk_create_by_index(...).await?, the decoding
\* of the body (json().await?), the print and Ok(()).
BulkCreate(p) ==
    /\ pc[p] = "bulk"
    /\ \E x \in Exchanges :
          /\ faults + Cost(x) <= MaxFaults
          /\ faults' = faults + Cost(x)
          /\ LET s == bulk_create_by_index(engine, product_index_name,
                                           generate_product_data, x)
                 r == [run[p] EXCEPT !.bulk = s.ret]
             IN  /\ engine' = s.eng
                 /\ received' = [received EXCEPT !.bulks =
                                    IF is_success(s.served.status) THEN @ + 1 ELSE @]
                 /\ IF s.ret.tag = "Err" \/ ~s.ret.resp.bodyOk
                    THEN Finish(p, r, "Err")
                    ELSE Finish(p, [r EXCEPT !.printed = Append(@, "bulk body")], "Ok")
    /\ UNCHANGED <<provLog, overlap, apiVars>>

(* ------------------- direct use of the ElSearch methods ----------------- *)
\* The methods take any index name, mapping, document sequence and query;
\* a user of them is modelled with arguments drawn from these sets.
GoodDoc == generate_product_data[1]
BadDoc == [generate_product_data[2] EXCEPT !.price = Str("cheap")]
DocPool == {GoodDoc, BadDoc}
DocSeqs == UNION {[1..n -> DocPool] : n \in 0..MaxDocs} \cup {generate_product_data}
Schemas == {get_product_mapping, [get_product_mapping EXCEPT !.price = "number"]}
Queries == {[query |-> "Smartphone"]}

Called(op, name, docs, x, s, lines) ==
    /\ calls < MaxCalls
    /\ faults + Cost(x) <= MaxFaults
    /\ faults' = faults + Cost(x)
    /\ calls' = calls + 1
    /\ engine' = s.eng
    /\ last' = [op |-> op, index |-> name, docs |-> docs, x |-> x, ret |-> s.ret,
                lines |-> lines, before |-> engine.idx[name]]
    /\ UNCHANGED mainVars

ApiCreateIndex ==
    \E name \in IndexNames, schema \in Schemas, x \in Exchanges :
        Called("create_index", name, <<>>, x, create_index(engine, name, schema, x), <<>>)

ApiBulkCreate ==
    \E name \in IndexNames, D \in DocSeqs, x \in Exchanges :
        Called("bulk_create_by_index", name, D, x,
               bulk_create_by_index(engine, name, D, x), bulk_body(D))

ApiSearch ==
    \E name \in IndexNames, q \in Queries, x \in Exchanges :
        Called("search", name, <<>>, x, search(engine, name, q, x), <<>>)

NextApi == ApiCreateIndex \/ ApiBulkCreate \/ ApiSearch

SpecApi == Init /\ [][NextApi]_vars

Next ==
    \E p \in Procs :
        \/ StartRun(p)
        \/ CheckIndexExists(p)
        \/ CreateIndex(p)
        \/ BulkCreate(p)

Spec == Init /\ [][Next]_vars
(* ------------------------------- claims --------------------------------- *)
\* The printed report of a run's provisioning step.
Outcome(r) ==
    IF \E i \in 1..Len(r.printed) : r.printed[i] = "created" THEN "Created"
    ELSE IF \E i \in 1..Len(r.printed) : r.printed[i] = "exists" THEN "AlreadyExists"
    ELSE IF \E i \in 1..Len(r.printed) : r.printed[i] = "failed to create" THEN "Failed"
    ELSE "none"

CreateIssued(r) == r.create.tag # "None"
BulkIssued(r) == r.bulk.tag # "None"

\* C1: starting from an engine without the index, with a healthy engine and
\* network, the first two provisioning steps run one after the other report
\* Created and then AlreadyExists, and the engine receives exactly one create
\* request.
C1_SequentialProvisioning ==
    (faults = 0 /\ ~overlap /\ Len(provLog) >= 2)
        => /\ provLog[1] = "Created"
           /\ provLog[2] = "AlreadyExists"
           /\ received.creates = 1

C1_Witness ==
    /\ faults = 0
    /\ ~overlap
    /\ Len(provLog) >= 2
    /\ provLog[2] = "AlreadyExists"
    /\ engine.idx[product_index_name].exists

\* C2: a provisioner that saw the index absent and whose create request is
\* rejected with the "already exists" conflict reports that the index exists
\* (a success), not a provisioning failure.  Stated for behaviours without
\* any environment fault, where the conflict can only come from the race.
C2_ConflictIsSuccess ==
    \A p \in Procs :
        (/\ faults = 0
         /\ run[p].probe.tag = "Ok"
         /\ run[p].probe.resp.status = 404
         /\ run[p].create.tag = "Ok"
         /\ run[p].create.resp.bodyOk
         /\ run[p].create.resp.error = "resource_already_exists_exception")
            => Outcome(run[p]) \in {"Created", "AlreadyExists"}

\* C3: a create-index response that is not a success, for a reason other than
\* "already exists", is fatal: no bulk request follows in that run and the run
\* does not end in success.
C3_CreateFailureIsFatal ==
    \A p \in Procs :
        (/\ run[p].create.tag = "Ok"
         /\ ~is_success(run[p].create.resp.status)
         /\ run[p].create.resp.error # "resource_already_exists_exception")
            => (~BulkIssued(run[p]) /\ run[p].exit # "Ok")

\* C4: when the probe reports that the index exists, the run issues no create
\* request, and its provisioning step (the probe and the branch) leaves the
\* engine as it was and adds no create request.
C4_ExistingIndexUntouched ==
    /\ [](\A p \in Procs : run[p].index_exists => ~CreateIssued(run[p]))
    /\ [][\A p \in Procs :
            (pc[p] = "check" /\ pc'[p] = "bulk")
                => (/\ run'[p].index_exists
                    /\ engine' = engine
                    /\ received'.creates = received.creates)]_vars

C4_Witness ==
    \E p \in Procs :
        /\ pc[p] = "bulk"
        /\ run[p].index_exists
        /\ engine.idx[product_index_name].exists
        /\ engine.idx[product_index_name].mapping = get_product_mapping

\* C5: whenever bulk_create_by_index returns a response for a non-empty
\* document sequence, the response carries one item per document, the i-th
\* item being the outcome of the i-th document.
C5_ItemPerDocument ==
    (/\ last.op = "bulk_create_by_index"
     /\ last.docs # <<>>
     /\ last.ret.tag = "Ok"
     /\ last.ret.resp.bodyOk)
        => /\ Len(last.ret.resp.items) = Len(last.docs)
           /\ \A i \in 1..Len(last.docs) :
                 (last.ret.resp.items[i].status = 201)
                    <=> ([id |-> last.ret.resp.items[i].id, source |-> last.docs[i]]
                            \in engine.idx[last.index].docs)

\* C6: the body sent for n documents has 2n lines; line 2i-1 is the create
\* instruction without an id and line 2i is the i-th document, unchanged.
C6_BulkBodyPairs ==
    last.op = "bulk_create_by_index"
        => /\ Len(last.lines) = 2 * Len(last.docs)
           /\ \A i \in 1..Len(last.docs) :
                 /\ last.lines[2 * i - 1].json = [create |-> <<>>]
                 /\ last.lines[2 * i].json = last.docs[i]

C6_Witness ==
    /\ last.op = "bulk_create_by_index"
    /\ Len(last.docs) = 2
    /\ last.docs[1] # last.docs[2]
    /\ Len(last.lines) = 4

\* C7: a bulk call fails only when the exchange fails at the transport level;
\* when the engine handles the request, the call returns a response in which
\* exactly the documents the engine rejected are marked failed, every other
\* document is marked created and is stored, and nothing else is stored.
C7_PartialFailureIsNotCallFailure ==
    last.op = "bulk_create_by_index"
        => /\ last.ret.tag = "Err" => last.x \in {"unreachable", "lost"}
           /\ (last.x \in {"ok", "badbody"} /\ last.docs # <<>>)
                => LET items  == last.ret.resp.items
                       stored == engine.idx[last.index].docs \ last.before.docs
                   IN  /\ last.ret.tag = "Ok"
                       /\ is_success(last.ret.resp.status)
                       /\ Len(items) = Len(last.docs)
                       /\ \A i \in 1..Len(last.docs) :
                             /\ items[i].status \in {201, 400}
                             /\ (items[i].status = 201)
                                   <=> ([id |-> items[i].id, source |-> last.docs[i]] \in stored)
                             /\ last.before.mapping = get_product_mapping
                                   => ((items[i].status = 400)
                                          <=> (\/ last.docs[i].price[1] # "number"
                                               \/ last.docs[i].rating[1] # "number"))
                       /\ Cardinality(stored)
                             = Cardinality({i \in 1..Len(items) : items[i].status = 201})

C7_Witness ==
    /\ last.op = "bulk_create_by_index"
    /\ last.x = "ok"
    /\ last.before.mapping = get_product_mapping
    /\ Len(last.docs) = 2
    /\ last.ret.tag = "Ok"
    /\ last.ret.resp.items[1].status = 400
    /\ last.ret.resp.items[2].status = 201

\* C8: a search against an index that does not exist ends in an error for
\* the caller, never in a success outcome.
C8_SearchMissingIndexIsError ==
    (/\ last.op = "search"
     /\ ~last.before.exists
     /\ last.x = "ok")
        => last.ret.tag = "Err"

\* C9: in a run of main a create request is issued exactly when the probe
\* completed with a status that is not a success (401 and 503 as well as 404);
\* a probe that fails at the transport level ends the run in an error with no
\* create and no bulk request.
C9_CreateIffProbeNotSuccess ==
    \A p \in Procs :
        /\ CreateIssued(run[p])
              => (run[p].probe.tag = "Ok" /\ ~is_success(run[p].probe.resp.status))
        /\ (/\ run[p].probe.tag = "Ok"
            /\ ~is_success(run[p].probe.resp.status)
            /\ pc[p] # "create")
              => CreateIssued(run[p])
        /\ run[p].probe.tag = "Err"
              => (/\ ~CreateIssued(run[p])
                  /\ ~BulkIssued(run[p])
                  /\ run[p].exit = "Err"
                  /\ pc[p] = "idle")

C9_Witness ==
    \E p \in Procs :
        /\ run[p].probe.tag = "Ok"
        /\ run[p].probe.resp.status \in {401, 503}
        /\ engine.idx[product_index_name].exists
        /\ CreateIssued(run[p])

\* C10: every bulk request of main that the engine answers with a success
\* status adds 7 new documents, so the index holds 7 documents per such
\* request, and no item is ever rejected as a duplicate.
C10_IngestionAccumulates ==
    /\ Cardinality(engine.idx[product_index_name].docs) = 7 * received.bulks
    /\ \A p \in Procs : \A i \in 1..Len(run[p].bulk.resp.items) :
          run[p].bulk.resp.items[i].status = 201

C10_Witness ==
    /\ received.bulks >= 2
    /\ \E d1, d2 \in engine.idx[product_index_name].docs :
          d1.id # d2.id /\ d1.source = d2.source

====
